---- MODULE Spec2Model ----
(***************************************************************************)
(* Model of backend/routes/incomingCalls.js: the incoming-call webhook,    *)
(* its lazy single-flight store initialisation, the bounded in-memory      *)
(* history, the SSE subscriber registry with heartbeat, and the read       *)
(* endpoints.  Node runs every handler to completion between awaits, so    *)
(* each action below is one synchronous segment of a handler (from one     *)
(* await to the next), and the store's answers are separate actions.       *)
(*                                                                         *)
(* Spec is the whole program.  The properties are established under        *)
(* specifications that keep every handler as it is and restrict the        *)
(* environment to the requests a property is about: SpecInit (start-up     *)
(* race of all request kinds), SpecCalls (webhooks and subscribers),       *)
(* SpecVisible (webhooks, one subscriber, the last-known endpoint),        *)
(* SpecGate (the gates of the webhook over all request contents),          *)
(* SpecLife (subscribers whose peers disconnect, with fair scheduling),    *)
(* SpecStore (webhooks and log queries against a failing store),           *)
(* SpecSubscriber (one subscriber's whole life while webhooks arrive),     *)
(* SpecStatus and SpecLimit (the status and limit parameters over their    *)
(* values).                                                                *)
(*                                                                         *)
(* A response whose write throws keeps throwing (`broken`); sequence       *)
(* numbers and ids are naturals, an id of 0 stands for "none reported".    *)
(***************************************************************************)
EXTENDS Naturals, Integers, Sequences, FiniteSets, TLC

\* ---------------------------------------------------------------- bounds
\* Capacity of the history ring (MAX_HISTORY = 500 in the source, scaled down).
MAX_HISTORY == 2
\* Rows already in incoming_calls when the process starts: 0..MaxInitRows.
MaxInitRows == 3
\* Number of concurrent webhook (POST /) requests.
MaxPosts == 2
\* Number of concurrent GET /stream requests.
MaxStreams == 2
\* Number of GET /last and of GET /log requests.
MaxLasts == 1
MaxLogs == 1
\* Heartbeat timer firings per subscriber.
MaxBeats == 1

\* ------------------------------------------------------------- requests
Posts == {<<"post", i>> : i \in 1..MaxPosts}
Streams == {<<"stream", i>> : i \in 1..MaxStreams}
Lasts == {<<"last", i>> : i \in 1..MaxLasts}
Logs == {<<"log", i>> : i \in 1..MaxLogs}
Gets == Streams \cup Lasts \cup Logs
Reqs == Posts \cup Gets

\* Requests of one kind are numbered in their order of arrival.
ArrivesNext(r, p) ==
    IF r[2] = 1 THEN TRUE ELSE LET before == <<r[1], r[2] - 1>> IN p[before] # "idle"

\* --------------------------------------------------------- JS primitives
\* undefined / null
Absent == "<absent>"
\* JS truthiness of a string-or-undefined value
Truthy(v) == v # Absent /\ v # ""
\* a || b
OrElse(a, b) == IF Truthy(a) THEN a ELSE b
\* an undefined character string
AbsentStr == <<Absent>>
\* a ?? b
Coalesce(a, b) == IF a # AbsentStr THEN a ELSE b
Max(a, b) == IF a >= b THEN a ELSE b

RECURSIVE Reverse(_)
Reverse(s) == IF s = <<>> THEN <<>> ELSE Append(Reverse(Tail(s)), Head(s))
Take(s, n) == SubSeq(s, 1, IF Len(s) < n THEN Len(s) ELSE n)
Range(s) == {s[i] : i \in 1..Len(s)}

\* Strings that are inspected character by character are sequences of
\* one-character strings.
Digits == {"0", "1", "2", "3", "4", "5", "6", "7", "8", "9"}
Whitespace == {" "}
RECURSIVE TrimLeft(_)
TrimLeft(s) == IF s # <<>> /\ Head(s) \in Whitespace THEN TrimLeft(Tail(s)) ELSE s
Trim(s) == Reverse(TrimLeft(Reverse(TrimLeft(s))))
OnlyDigits(s) == SelectSeq(s, LAMBDA c : c \in Digits)

\* ------------------------------------------------------------ the state
VARIABLES
    expectedSecret,      \* process.env.PBX_WEBHOOK_SECRET
    secretWarningLogged, \* let secretWarningLogged
    readyPromise,        \* let readyPromise: "null" | "pending" | "fulfilled" | "rejected"
    initStep,            \* position of the initialisation closure
    schemaCalls,         \* number of CREATE TABLE statements sent to the store
    bootstrapCalls,      \* number of bootstrap SELECTs sent to the store
    db,                  \* table incoming_calls: sequence of rows in insertion order
    sequence,            \* let sequence
    callHistory,         \* const callHistory
    lastCall,            \* let lastCall
    listeners,           \* const listeners (set of stream requests)
    heartbeat,           \* listener.heartbeat interval is running
    sink,                \* frames written to each stream response
    broken,              \* res.write on this response throws
    closed,              \* the peer of this stream has disconnected
    ticks,               \* heartbeat timer firings of each stream
    pc,                  \* position of each request handler
    resp,                \* HTTP status sent for each request (0: none yet)
    saw,                 \* outcome of `await ensurePersistenceReady()` seen by each request
    ins,                 \* per POST: the store's answer to its INSERT
    prior,               \* per POST: the POSTs that had completed when it arrived
    lastBody,            \* per GET /last: the `call` it returned
    pushed,              \* every entry given to storeInHistory, in call order
    booted,              \* the rows the bootstrap SELECT returned
    probe,               \* the webhook request presented to the gates
    status,              \* per POST: the `status` of its entry (line 168)
    queryLimit,          \* per GET /log: the `limit` of its query (line 291)
    limitParam,          \* req.query.limit of the GET /log requests
    fired,               \* per stream: how many of its close/end/finish handlers have run
    regAt                \* per stream: how many events had been broadcast when it registered

vars == <<expectedSecret, secretWarningLogged, readyPromise, initStep, schemaCalls,
          bootstrapCalls, db, sequence, callHistory, lastCall, listeners, heartbeat,
          sink, broken, closed, ticks, pc, resp, saw, ins, prior, lastBody, pushed, booted, probe, status, queryLimit, limitParam, fired, regAt>>

\* ---------------------------------------------------------- pure helpers
\* An in-memory call entry: `id` is the id the process gave it, `rid` the
\* primary key of its row in incoming_calls (the identity of the event).
NoEvent == [id |-> 0, rid |-> 0]
EntryOfRow(row) == [id |-> row.id, rid |-> row.id]

NoPhone == [display |-> <<>>, digits |-> <<>>]
MaxDigits == 20
sanitizePhone(rawValue) ==
    IF rawValue = AbsentStr THEN NoPhone
    ELSE LET str == Trim(rawValue) IN
         IF str = <<>> THEN NoPhone
         ELSE LET all == OnlyDigits(str)
                  startsWithPlus == Head(str) = "+"
              IN IF all = <<>> THEN NoPhone
                 ELSE LET digits == IF Len(all) > MaxDigits THEN Take(all, MaxDigits) ELSE all
                      IN [display |-> IF startsWithPlus THEN <<"+">> \o digits ELSE digits,
                          digits |-> digits]

\* String.prototype.toLowerCase over the letters
Lowers == <<"a", "b", "c", "d", "e", "f", "g", "h", "i", "j", "k", "l", "m",
            "n", "o", "p", "q", "r", "s", "t", "u", "v", "w", "x", "y", "z">>
Uppers == <<"A", "B", "C", "D", "E", "F", "G", "H", "I", "J", "K", "L", "M",
            "N", "O", "P", "Q", "R", "S", "T", "U", "V", "W", "X", "Y", "Z">>
toLowerCase(s) ==
    [i \in 1..Len(s) |->
        IF \E k \in 1..Len(Uppers) : Uppers[k] = s[i]
        THEN Lowers[CHOOSE k \in 1..Len(Uppers) : Uppers[k] = s[i]]
        ELSE s[i]]

\* const STATUS_LABELS = new Set(['ringing', 'answered', 'missed', 'rejected'])
Ringing == <<"r", "i", "n", "g", "i", "n", "g">>
Answered == <<"a", "n", "s", "w", "e", "r", "e", "d">>
Missed == <<"m", "i", "s", "s", "e", "d">>
Rejected == <<"r", "e", "j", "e", "c", "t", "e", "d">>
STATUS_LABELS == {Ringing, Answered, Missed, Rejected}
\* the literals 'no_answer' and 'noanswer' of line 20
No_Answer == <<"n", "o", "_", "a", "n", "s", "w", "e", "r">>
NoAnswer == <<"n", "o", "a", "n", "s", "w", "e", "r">>

normalizeStatus(rawStatus) ==
    IF rawStatus = AbsentStr \/ rawStatus = <<>> THEN Ringing
    ELSE LET lowered == toLowerCase(Trim(rawStatus))
         IN IF lowered \in STATUS_LABELS THEN lowered
            ELSE IF lowered = No_Answer \/ lowered = NoAnswer THEN Missed
            ELSE Ringing

\* req.body?.phone ?? req.body?.caller ?? req.body?.number ?? ''
PhoneField(req) == Coalesce(Coalesce(Coalesce(req.phone, req.caller), req.number), <<>>)
PhoneMissing(req) ==
    LET p == sanitizePhone(PhoneField(req)) IN p.display = <<>> /\ p.digits = <<>>

\* req.get('x-pbx-secret') || req.body?.secret || req.query?.secret
providedSecret_QueryFirst(req) == OrElse(OrElse(req.qry, req.body), req.hdr)
providedSecret(req) == OrElse(OrElse(req.hdr, req.body), req.qry)
\* the `if (expectedSecret)` gate
SecretRejected(expected, req) ==
    Truthy(expected) /\ (~Truthy(providedSecret(req)) \/ providedSecret(req) # expected)

\* rows of the table ordered by received_at DESC, id DESC, at most n of them
Newer(a, b) == a.at > b.at \/ (a.at = b.at /\ a.id > b.id)
RECURSIVE SelectRecent(_, _)
SelectRecent(rows, n) ==
    IF rows = {} \/ n = 0 THEN <<>>
    ELSE LET top == CHOOSE a \in rows : \A b \in rows \ {a} : Newer(a, b)
         IN <<top>> \o SelectRecent(rows \ {top}, n - 1)

RECURSIVE MaxId(_)
MaxId(rows) == IF rows = <<>> THEN 0 ELSE Max(Head(rows).id, MaxId(Tail(rows)))
\* AUTO_INCREMENT of incoming_calls.id
NextRowId == MaxId(db) + 1

\* callHistory.unshift(entry); if (length > MAX_HISTORY) callHistory.pop()
storeInHistory_NoPop(history, entry) == <<entry>> \o history
storeInHistory_Push(history, entry) ==
    IF Len(history) >= MAX_HISTORY THEN Append(Tail(history), entry) ELSE Append(history, entry)
storeInHistory(history, entry) ==
    LET grown == <<entry>> \o history
    IN IF Len(grown) > MAX_HISTORY THEN SubSeq(grown, 1, Len(grown) - 1) ELSE grown

\* frames of the event stream
RetryFrame == [type |-> "retry", ev |-> NoEvent, snap |-> FALSE]
KeepAliveFrame == [type |-> "keep-alive", ev |-> NoEvent, snap |-> FALSE]
CallFrame(event, snap) == [type |-> "call", ev |-> event, snap |-> snap]

\* ------------------------------------------------------------------ Init
SecretValues == {Absent, "", "abc", "xyz"}
PhoneValues == {AbsentStr, <<>>, <<" ">>, <<"a", "-">>, <<"+", "4", "0">>, <<" ", "7", "a">>}
\* every webhook request over the bounded field values
AllPostRequests ==
    [hdr : SecretValues, body : SecretValues, qry : SecretValues,
     phone : PhoneValues, caller : {AbsentStr, <<"7">>}, number : {AbsentStr},
     status : {AbsentStr}]
WebReq(h, b, q, p) ==
    [hdr |-> h, body |-> b, qry |-> q, phone |-> p, caller |-> AbsentStr, number |-> AbsentStr,
     status |-> AbsentStr]
\* the webhook requests that arrive in the full system
PostRequests ==
    { WebReq("abc", Absent, Absent, <<"+", "4", "0">>),
      WebReq(Absent, Absent, Absent, <<" ", "7", "a">>),
      WebReq(Absent, "xyz", "abc", <<"+", "4", "0">>),
      WebReq("abc", Absent, Absent, <<"a", "-">>) }

\* the table before the process starts: ids 1..k with one received_at (0);
\* a row inserted by this process is received later (1)
InitTables ==
    { [i \in 1..k |-> [id |-> i, at |-> 0]] : k \in 0..MaxInitRows }

NoInsert == [rid |-> 0, insertId |-> 0]

Init ==
    /\ expectedSecret \in {Absent, "abc"}
    /\ secretWarningLogged = FALSE
    /\ readyPromise = "null"
    /\ initStep = "idle"
    /\ schemaCalls = 0
    /\ bootstrapCalls = 0
    /\ db \in InitTables
    /\ sequence = 0
    /\ callHistory = <<>>
    /\ lastCall = NoEvent
    /\ listeners = {}
    /\ heartbeat = [s \in Streams |-> FALSE]
    /\ sink = [s \in Streams |-> <<>>]
    /\ broken = [s \in Streams |-> FALSE]
    /\ closed = [s \in Streams |-> FALSE]
    /\ ticks = [s \in Streams |-> 0]
    /\ pc = [r \in Reqs |-> "idle"]
    /\ resp = [r \in Reqs |-> 0]
    /\ saw = [r \in Reqs |-> "none"]
    /\ ins = [r \in Posts |-> NoInsert]
    /\ prior = [r \in Posts |-> {}]
    /\ lastBody = [r \in Lasts |-> NoEvent]
    /\ pushed = <<>>
    /\ booted = <<>>
    /\ probe = WebReq(Absent, Absent, Absent, AbsentStr)
    /\ status = [r \in Posts |-> AbsentStr]
    /\ queryLimit = [r \in Logs |-> 0]
    /\ limitParam = AbsentStr
    /\ fired = [s \in Streams |-> 0]
    /\ regAt = [s \in Streams |-> 0]

\* ------------------------------------------- one-time initialisation
\* ensurePersistenceReady(): the synchronous part run by the caller.  The
\* closure runs up to its first await, i.e. it sends CREATE TABLE.
ensurePersistenceReady_NoMemo ==
    /\ readyPromise' = "pending"
    /\ initStep' = "schema"
    /\ schemaCalls' = schemaCalls + 1
ensurePersistenceReady ==
    IF readyPromise = "null"
    THEN /\ readyPromise' = "pending"
         /\ initStep' = "schema"
         /\ schemaCalls' = schemaCalls + 1
    ELSE UNCHANGED <<readyPromise, initStep, schemaCalls>>

Settled == readyPromise \in {"fulfilled", "rejected"}

\* CREATE TABLE IF NOT EXISTS succeeded: the closure sends the bootstrap SELECT
SchemaOk ==
    /\ initStep = "schema"
    /\ initStep' = "bootstrap"
    /\ bootstrapCalls' = bootstrapCalls + 1
    /\ UNCHANGED <<expectedSecret, secretWarningLogged, readyPromise, schemaCalls, db,
                   sequence, callHistory, lastCall, listeners, heartbeat, sink, broken,
                   closed, ticks, pc, resp, saw, ins, prior, lastBody,
                   pushed, booted, probe, status, queryLimit, limitParam, fired, regAt>>

\* a db.query of the closure rejected: catch, log, rethrow
InitFail ==
    /\ initStep \in {"schema", "bootstrap"}
    /\ initStep' = "failed"
    /\ readyPromise' = "rejected"
    /\ UNCHANGED <<expectedSecret, secretWarningLogged, schemaCalls, bootstrapCalls, db,
                   sequence, callHistory, lastCall, listeners, heartbeat, sink, broken,
                   closed, ticks, pc, resp, saw, ins, prior, lastBody,
                   pushed, booted, probe, status, queryLimit, limitParam, fired, regAt>>

\* the bootstrap SELECT ... LIMIT ?
BootstrapRows_NoLimit(limit) == SelectRecent(Range(db), Len(db))
BootstrapRows(limit) == SelectRecent(Range(db), limit)

\* the bootstrap SELECT answered: fill callHistory, raise sequence, set lastCall
BootstrapOk ==
    /\ initStep = "bootstrap"
    /\ LET rows == BootstrapRows(MAX_HISTORY)
           history == [i \in 1..Len(rows) |-> EntryOfRow(rows[i])]
       IN /\ callHistory' = history
          /\ sequence' = Max(sequence, MaxId(rows))
          /\ lastCall' = IF Len(history) > 0 THEN history[1] ELSE lastCall
          /\ booted' = history
    /\ initStep' = "done"
    /\ readyPromise' = "fulfilled"
    /\ UNCHANGED <<expectedSecret, secretWarningLogged, schemaCalls, bootstrapCalls, db,
                   listeners, heartbeat, sink, broken, closed, ticks, pc, resp, saw, ins,
                   prior, lastBody, pushed, probe, status, queryLimit, limitParam, fired, regAt>>

\* ------------------------------------------------- subscriber registry
\* cleanupListener for every listener of `gone`
CleanedListeners(gone) == listeners \ gone
CleanedHeartbeat_TimerKept(gone) == heartbeat
CleanedHeartbeat(gone) == [s \in Streams |-> IF s \in gone THEN FALSE ELSE heartbeat[s]]

\* listener.res.write(payload): throws exactly when the response is broken
WriteThrows(s) == broken[s]

\* broadcast(event): the listeners whose write threw, and the sinks afterwards
BroadcastFailed(ls) == {s \in ls : WriteThrows(s)}
BroadcastSinks_StopAtFailure(ls, event) ==
    [s \in Streams |->
        IF s \in ls /\ BroadcastFailed(ls) = {}
        THEN Append(sink[s], CallFrame(event, FALSE)) ELSE sink[s]]
BroadcastSinks_NewestFirst(ls, event) ==
    [s \in Streams |->
        IF s \in ls /\ ~WriteThrows(s)
        THEN IF s = <<"stream", 1>>
             THEN <<Head(sink[s]), CallFrame(event, FALSE)>> \o Tail(sink[s])
             ELSE Append(sink[s], CallFrame(event, FALSE))
        ELSE sink[s]]
BroadcastSinks_DedupById(ls, event) ==
    [s \in Streams |->
        IF s \in ls /\ ~WriteThrows(s) /\ sink[s][Len(sink[s])].ev.id # event.id
        THEN Append(sink[s], CallFrame(event, FALSE)) ELSE sink[s]]
BroadcastSinks(ls, event) ==
    [s \in Streams |->
        IF s \in ls /\ ~WriteThrows(s)
        THEN Append(sink[s], CallFrame(event, FALSE)) ELSE sink[s]]

\* ------------------------------------------------------------ POST /
\* the request reaches the handler, which calls ensurePersistenceReady()
PostArrive(r) ==
    /\ pc[r] = "idle"
    /\ ArrivesNext(r, pc)
    /\ ensurePersistenceReady
    /\ pc' = [pc EXCEPT ![r] = "await_ready"]
    /\ prior' = [prior EXCEPT ![r] = {q \in Posts : pc[q] = "done"}]
    /\ UNCHANGED <<expectedSecret, secretWarningLogged, bootstrapCalls, db, sequence,
                   callHistory, lastCall, listeners, heartbeat, sink, broken, closed,
                   ticks, resp, saw, ins, lastBody, pushed, booted, probe, status, queryLimit, limitParam, fired, regAt>>

\* `sequence` across the gates of POST /: no statement before the INSERT
\* touches the id counter
SequenceAfterGates_CountsRequests == sequence + 1
SequenceAfterGates == sequence

\* from the end of `await ensurePersistenceReady()` to `await db.query(INSERT)`:
\* init failure, the secret gate, the phone gate, receivedAt
PostGate(r, req) ==
    /\ pc[r] = "await_ready"
    /\ Settled
    /\ IF readyPromise = "rejected"
       THEN /\ saw' = [saw EXCEPT ![r] = "failed"]
            /\ resp' = [resp EXCEPT ![r] = 500]
            /\ pc' = [pc EXCEPT ![r] = "done"]
            /\ UNCHANGED secretWarningLogged
       ELSE /\ saw' = [saw EXCEPT ![r] = "ok"]
            /\ IF SecretRejected(expectedSecret, req)
               THEN /\ resp' = [resp EXCEPT ![r] = 401]
                    /\ pc' = [pc EXCEPT ![r] = "done"]
                    /\ UNCHANGED secretWarningLogged
               ELSE /\ secretWarningLogged' =
                          (secretWarningLogged \/ ~Truthy(expectedSecret))
                    /\ IF PhoneMissing(req)
                       THEN /\ resp' = [resp EXCEPT ![r] = 400]
                            /\ pc' = [pc EXCEPT ![r] = "done"]
                       ELSE /\ pc' = [pc EXCEPT ![r] = "await_insert"]
                            /\ UNCHANGED resp
    /\ status' = IF pc'[r] = "await_insert"
                 THEN [status EXCEPT ![r] = normalizeStatus(req.status)]
                 ELSE status
    /\ sequence' = SequenceAfterGates
    /\ UNCHANGED <<expectedSecret, readyPromise, initStep, schemaCalls, bootstrapCalls,
                   db, callHistory, lastCall, listeners, heartbeat, sink,
                   broken, closed, ticks, ins, prior, lastBody, pushed, booted, probe,
                   queryLimit, limitParam, fired, regAt>>

PostResume(r) == \E req \in PostRequests : PostGate(r, req)

\* the store commits the INSERT and answers; insertId is the row's id, or 0
\* when the driver reports none
InsertCommit(r) ==
    /\ pc[r] = "await_insert"
    /\ \E reported \in {NextRowId, 0} :
          ins' = [ins EXCEPT ![r] = [rid |-> NextRowId, insertId |-> reported]]
    /\ db' = Append(db, [id |-> NextRowId, at |-> 1])
    /\ pc' = [pc EXCEPT ![r] = "inserted"]
    /\ UNCHANGED <<expectedSecret, secretWarningLogged, readyPromise, initStep,
                   schemaCalls, bootstrapCalls, sequence, callHistory, lastCall,
                   listeners, heartbeat, sink, broken, closed, ticks, resp, saw, prior, lastBody, pushed, booted, probe, status, queryLimit, limitParam, fired, regAt>>

\* what the catch block of the INSERT leaves in callHistory
HistoryOnInsertError_Optimistic(r) == storeInHistory(callHistory, [id |-> sequence + 1, rid |-> 0])
HistoryOnInsertError(r) == callHistory

\* the INSERT rejected: catch, log, 500
InsertFail(r) ==
    /\ pc[r] = "await_insert"
    /\ callHistory' = HistoryOnInsertError(r)
    /\ resp' = [resp EXCEPT ![r] = 500]
    /\ pc' = [pc EXCEPT ![r] = "done"]
    /\ UNCHANGED <<expectedSecret, secretWarningLogged, readyPromise, initStep,
                   schemaCalls, bootstrapCalls, db, sequence, lastCall, listeners,
                   heartbeat, sink, broken, closed, ticks, saw, ins, prior,
                   lastBody, pushed, booted, probe, status, queryLimit, limitParam, fired, regAt>>

\* const id = insertRes.insertId ? String(insertRes.insertId) : String(++sequence)
AssignedId(insertId) == IF insertId # 0 THEN insertId ELSE sequence + 1
\* sequence after `++sequence` (if taken) and Math.max(sequence, Number(id) || sequence)
SequenceAfter(insertId) ==
    LET incremented == IF insertId # 0 THEN sequence ELSE sequence + 1
        id == AssignedId(insertId)
    IN Max(incremented, IF id # 0 THEN id ELSE incremented)

\* an exception of a subscriber's write leaves broadcast(): never, it is caught
BroadcastThrows_NoCatch(ls) == BroadcastFailed(ls) # {}
BroadcastThrows(ls) == FALSE

\* after the INSERT: id, entry, storeInHistory, lastCall, broadcast, response
PostFinish(r) ==
    /\ pc[r] = "inserted"
    /\ LET entry == [id |-> AssignedId(ins[r].insertId), rid |-> ins[r].rid]
       IN /\ sequence' = SequenceAfter(ins[r].insertId)
          /\ callHistory' = storeInHistory(callHistory, entry)
          /\ pushed' = Append(pushed, entry)
          /\ lastCall' = entry
          /\ sink' = BroadcastSinks(listeners, entry)
          /\ listeners' = CleanedListeners(BroadcastFailed(listeners))
          /\ heartbeat' = CleanedHeartbeat(BroadcastFailed(listeners))
    /\ resp' = [resp EXCEPT ![r] = IF BroadcastThrows(listeners) THEN 500 ELSE 200]
    /\ pc' = [pc EXCEPT ![r] = "done"]
    /\ UNCHANGED <<expectedSecret, secretWarningLogged, readyPromise, initStep,
                   schemaCalls, bootstrapCalls, db, broken, closed, ticks, saw, ins,
                   prior, lastBody, booted, probe, status, queryLimit, limitParam, fired, regAt>>

\* ------------------------------------------------------- GET requests
\* what `if (!req.user) return res.status(401)...` does to the one-time
\* initialisation: nothing, the return precedes the call
UnauthenticatedInit_InitFirst == ensurePersistenceReady
UnauthenticatedInit == UNCHANGED <<readyPromise, initStep, schemaCalls>>

\* `if (!req.user) return 401`, else the call of ensurePersistenceReady()
GetArrive(r) ==
    /\ pc[r] = "idle"
    /\ ArrivesNext(r, pc)
    /\ \E user \in BOOLEAN :
          IF ~user
          THEN /\ resp' = [resp EXCEPT ![r] = 401]
               /\ pc' = [pc EXCEPT ![r] = "done"]
               /\ UnauthenticatedInit
          ELSE /\ ensurePersistenceReady
               /\ pc' = [pc EXCEPT ![r] = "await_ready"]
               /\ UNCHANGED resp
    /\ UNCHANGED <<expectedSecret, secretWarningLogged, bootstrapCalls, db, sequence,
                   callHistory, lastCall, listeners, heartbeat, sink, broken, closed,
                   ticks, saw, ins, prior, lastBody, pushed, booted, probe, status, queryLimit, limitParam, fired, regAt>>

\* the catch of `await ensurePersistenceReady()` in the three GET handlers
GetInitFailed(r) ==
    /\ r \in Gets
    /\ pc[r] = "await_ready"
    /\ readyPromise = "rejected"
    /\ saw' = [saw EXCEPT ![r] = "failed"]
    /\ resp' = [resp EXCEPT ![r] = 500]
    /\ pc' = [pc EXCEPT ![r] = "done"]
    /\ UNCHANGED <<expectedSecret, secretWarningLogged, readyPromise, initStep,
                   schemaCalls, bootstrapCalls, db, sequence, callHistory, lastCall,
                   listeners, heartbeat, sink, broken, closed, ticks, ins, prior, lastBody, pushed, booted, probe, status, queryLimit, limitParam, fired, regAt>>

\* the frames written on open: retry hint, then lastCall if there is one
OpeningFrames_NoSnapshot(last) == <<RetryFrame>>
OpeningFrames(last) ==
    IF last # NoEvent THEN <<RetryFrame, CallFrame(last, TRUE)>> ELSE <<RetryFrame>>

\* GET /stream after the await: headers, retry frame, heartbeat timer, close
\* handlers, listeners.add, snapshot of lastCall; all in one synchronous run.
\* A throwing res.write('retry') leaves the handler before anything is set up.
StreamOpen(s) ==
    /\ s \in Streams
    /\ pc[s] = "await_ready"
    /\ readyPromise = "fulfilled"
    /\ saw' = [saw EXCEPT ![s] = "ok"]
    /\ resp' = [resp EXCEPT ![s] = 200]
    /\ IF WriteThrows(s)
       THEN /\ pc' = [pc EXCEPT ![s] = "threw"]
            /\ UNCHANGED <<sink, heartbeat, listeners, regAt>>
       ELSE /\ sink' = [sink EXCEPT ![s] = OpeningFrames(lastCall)]
            /\ heartbeat' = [heartbeat EXCEPT ![s] = TRUE]
            /\ listeners' = listeners \cup {s}
            /\ regAt' = [regAt EXCEPT ![s] = Len(pushed)]
            /\ pc' = [pc EXCEPT ![s] = "streaming"]
    /\ UNCHANGED <<expectedSecret, secretWarningLogged, readyPromise, initStep,
                   schemaCalls, bootstrapCalls, db, sequence, callHistory, lastCall,
                   broken, closed, ticks, ins, prior, lastBody, pushed,
                   booted, probe, status, queryLimit, limitParam, fired>>

\* the setInterval callback of a listener; the firings whose write succeeds
\* are capped, the one whose write throws ends the timer
Heartbeat(s) ==
    /\ heartbeat[s]
    /\ (ticks[s] < MaxBeats \/ WriteThrows(s))
    /\ ticks' = [ticks EXCEPT ![s] = @ + 1]
    /\ IF WriteThrows(s)
       THEN /\ listeners' = CleanedListeners({s})
            /\ heartbeat' = CleanedHeartbeat({s})
            /\ UNCHANGED sink
       ELSE /\ sink' = [sink EXCEPT ![s] = Append(@, KeepAliveFrame)]
            /\ UNCHANGED <<listeners, heartbeat>>
    /\ UNCHANGED <<expectedSecret, secretWarningLogged, readyPromise, initStep,
                   schemaCalls, bootstrapCalls, db, sequence, callHistory, lastCall,
                   broken, closed, pc, resp, saw, ins, prior, lastBody,
                   pushed, booted, probe, status, queryLimit, limitParam, fired, regAt>>

\* the peer disconnects: 'close' is emitted once; the handlers of lines
\* 254-257 run only if they are attached by then, and the first of them runs
\* cleanupListener
Disconnect(s) ==
    /\ pc[s] \in {"await_ready", "streaming"}
    /\ ~closed[s]
    /\ closed' = [closed EXCEPT ![s] = TRUE]
    /\ IF pc[s] = "streaming"
       THEN /\ listeners' = CleanedListeners({s})
            /\ heartbeat' = CleanedHeartbeat({s})
            /\ fired' = [fired EXCEPT ![s] = 1]
       ELSE UNCHANGED <<listeners, heartbeat, fired>>
    /\ UNCHANGED <<expectedSecret, secretWarningLogged, readyPromise, initStep,
                   schemaCalls, bootstrapCalls, db, sequence, callHistory, lastCall,
                   sink, broken, ticks, pc, resp, saw, ins, prior, lastBody, pushed, booted, probe, status, queryLimit, limitParam, regAt>>

\* the handlers attached to req and res for 'close', 'end' and 'finish'
CloseHandlers == 4
\* another of the handlers of a closed connection runs cleanupListener
CloseHandler(s) ==
    /\ pc[s] = "streaming"
    /\ closed[s]
    /\ fired[s] >= 1
    /\ fired[s] < CloseHandlers
    /\ fired' = [fired EXCEPT ![s] = @ + 1]
    /\ listeners' = CleanedListeners({s})
    /\ heartbeat' = CleanedHeartbeat({s})
    /\ UNCHANGED <<expectedSecret, secretWarningLogged, readyPromise, initStep,
                   schemaCalls, bootstrapCalls, db, sequence, callHistory, lastCall,
                   sink, broken, closed, ticks, pc, resp, saw, ins, prior, lastBody,
                   pushed, booted, probe, status, queryLimit, limitParam, regAt>>

\* the response of a stream starts to throw on write
SinkBreak(s) ==
    /\ pc[s] \in {"await_ready", "streaming"}
    /\ ~broken[s]
    /\ broken' = [broken EXCEPT ![s] = TRUE]
    /\ UNCHANGED <<expectedSecret, secretWarningLogged, readyPromise, initStep,
                   schemaCalls, bootstrapCalls, db, sequence, callHistory, lastCall,
                   listeners, heartbeat, sink, closed, ticks, pc, resp, saw, ins,
                   prior, lastBody, pushed, booted, probe, status, queryLimit, limitParam, fired, regAt>>

\* GET /last after the await: res.json({ call: lastCall })
LastRespond(r) ==
    /\ r \in Lasts
    /\ pc[r] = "await_ready"
    /\ readyPromise = "fulfilled"
    /\ saw' = [saw EXCEPT ![r] = "ok"]
    /\ lastBody' = [lastBody EXCEPT ![r] = lastCall]
    /\ resp' = [resp EXCEPT ![r] = 200]
    /\ pc' = [pc EXCEPT ![r] = "done"]
    /\ UNCHANGED <<expectedSecret, secretWarningLogged, readyPromise, initStep,
                   schemaCalls, bootstrapCalls, db, sequence, callHistory, lastCall,
                   listeners, heartbeat, sink, broken, closed, ticks, ins, prior, pushed, booted, probe, status, queryLimit, limitParam, fired, regAt>>

\* Number.parseInt(string, 10): blanks, a sign, then the leading digits;
\* NaN (ok = FALSE) when there is none, and for undefined
DigitSeq == <<"0", "1", "2", "3", "4", "5", "6", "7", "8", "9">>
DigitValue(c) == (CHOOSE k \in 1..Len(DigitSeq) : DigitSeq[k] = c) - 1
RECURSIVE LeadingDigits(_)
LeadingDigits(s) ==
    IF s # <<>> /\ Head(s) \in Digits THEN <<Head(s)>> \o LeadingDigits(Tail(s)) ELSE <<>>
RECURSIVE DecimalValue(_)
DecimalValue(ds) ==
    IF ds = <<>> THEN 0
    ELSE 10 * DecimalValue(SubSeq(ds, 1, Len(ds) - 1)) + DigitValue(ds[Len(ds)])
NaN == [ok |-> FALSE, val |-> 0]
parseInt(string) ==
    IF string = AbsentStr THEN NaN
    ELSE LET str == TrimLeft(string)
             signed == str # <<>> /\ Head(str) \in {"-", "+"}
             digits == LeadingDigits(IF signed THEN Tail(str) ELSE str)
         IN IF digits = <<>> THEN NaN
            ELSE [ok |-> TRUE,
                  val |-> IF signed /\ Head(str) = "-"
                          THEN 0 - DecimalValue(digits) ELSE DecimalValue(digits)]

\* MAX_HISTORY at the value the source gives it: the capacity of the history
\* is scaled in this model, the row limit of the query is not
MAX_HISTORY_VALUE == 500
DefaultLimit == 100
Min(a, b) == IF a <= b THEN a ELSE b
\* parsed || 100, where NaN and 0 are falsy
OrDefault(parsed) == IF parsed.ok /\ parsed.val # 0 THEN parsed.val ELSE DefaultLimit
\* Math.max(1, Math.min(Number.parseInt(req.query?.limit, 10) || 100, MAX_HISTORY))
LogLimit(raw) == Max(1, Min(OrDefault(parseInt(raw)), MAX_HISTORY_VALUE))

\* GET /log after the await: the limit is computed and the SELECT is sent
LogQuery(r) ==
    /\ r \in Logs
    /\ pc[r] = "await_ready"
    /\ readyPromise = "fulfilled"
    /\ saw' = [saw EXCEPT ![r] = "ok"]
    /\ queryLimit' = [queryLimit EXCEPT ![r] = LogLimit(limitParam)]
    /\ pc' = [pc EXCEPT ![r] = "await_query"]
    /\ UNCHANGED <<expectedSecret, secretWarningLogged, readyPromise, initStep,
                   schemaCalls, bootstrapCalls, db, sequence, callHistory, lastCall,
                   listeners, heartbeat, sink, broken, closed, ticks, resp, ins, prior,
                   lastBody, pushed, booted, probe, status, limitParam, fired, regAt>>

\* the SELECT of GET /log answered: res.json({ entries })
LogQueryOk(r) ==
    /\ r \in Logs
    /\ pc[r] = "await_query"
    /\ resp' = [resp EXCEPT ![r] = 200]
    /\ pc' = [pc EXCEPT ![r] = "done"]
    /\ UNCHANGED <<expectedSecret, secretWarningLogged, readyPromise, initStep,
                   schemaCalls, bootstrapCalls, db, sequence, callHistory, lastCall,
                   listeners, heartbeat, sink, broken, closed, ticks, saw, ins, prior, lastBody, pushed, booted, probe, status, queryLimit, limitParam, fired, regAt>>

\* the SELECT of GET /log rejected: the await is outside any try, so the
\* promise of the async handler rejects.  What becomes of it is up to the
\* router the handler is mounted in: it is dropped and nothing is sent, or it
\* is forwarded to an error handler that answers 500.
LogQueryFail(r) ==
    /\ r \in Logs
    /\ pc[r] = "await_query"
    /\ pc' = [pc EXCEPT ![r] = "threw"]
    /\ \E forwarded \in BOOLEAN :
          resp' = [resp EXCEPT ![r] = IF forwarded THEN 500 ELSE @]
    /\ UNCHANGED <<expectedSecret, secretWarningLogged, readyPromise, initStep,
                   schemaCalls, bootstrapCalls, db, sequence, callHistory, lastCall,
                   listeners, heartbeat, sink, broken, closed, ticks, saw, ins,
                   prior, lastBody, pushed, booted, probe, status, queryLimit, limitParam, fired, regAt>>

\* ------------------------------------------------------- specifications
InitActs == SchemaOk \/ InitFail \/ BootstrapOk

PostActs ==
    \/ \E r \in Posts : PostArrive(r)
    \/ \E r \in Posts : PostResume(r)
    \/ \E r \in Posts : InsertCommit(r)
    \/ \E r \in Posts : InsertFail(r)
    \/ \E r \in Posts : PostFinish(r)

\* the whole program under every request kind
Next ==
    \/ InitActs
    \/ PostActs
    \/ \E r \in Gets : GetArrive(r)
    \/ \E r \in Gets : GetInitFailed(r)
    \/ \E s \in Streams : StreamOpen(s)
    \/ \E s \in Streams : Heartbeat(s)
    \/ \E s \in Streams : Disconnect(s)
    \/ \E s \in Streams : CloseHandler(s)
    \/ \E s \in Streams : SinkBreak(s)
    \/ \E r \in Lasts : LastRespond(r)
    \/ \E r \in Logs : LogQuery(r)
    \/ \E r \in Logs : LogQueryOk(r)
    \/ \E r \in Logs : LogQueryFail(r)

Spec == Init /\ [][Next]_vars

\* the secret is configured; the table is empty, holds one row, or is full
InitServing == Init /\ expectedSecret = "abc" /\ Len(db) \in {0, 1, MaxInitRows}

\* Start-up: requests of all four kinds race for the one-time initialisation
\* and run up to their first store access after it.
NextInit ==
    \/ InitActs
    \/ \E r \in Posts : PostArrive(r)
    \/ \E r \in Posts : PostResume(r)
    \/ \E r \in Gets : GetArrive(r)
    \/ \E r \in Gets : GetInitFailed(r)
    \/ \E s \in Streams : StreamOpen(s)
    \/ \E r \in Lasts : LastRespond(r)
    \/ \E r \in Logs : LogQuery(r)

\* the secret is configured and the table is full at start-up
InitStartup == Init /\ expectedSecret = "abc" /\ Len(db) = MaxInitRows

SpecInit == InitStartup /\ [][NextInit]_vars

\* Ingestion and fan-out: webhooks and stream subscribers whose responses may
\* start to fail, with the heartbeat timers running.
NextCalls ==
    \/ InitActs
    \/ PostActs
    \/ \E s \in Streams : GetArrive(s)
    \/ \E s \in Streams : GetInitFailed(s)
    \/ \E s \in Streams : StreamOpen(s)
    \/ \E s \in Streams : Heartbeat(s)
    \/ \E s \in Streams : SinkBreak(s)

SpecCalls == InitServing /\ [][NextCalls]_vars

\* Visibility: webhooks, one stream subscriber and the last-known endpoint.
OneStream == {<<"stream", 1>>}
NextVisible ==
    \/ InitActs
    \/ PostActs
    \/ \E r \in OneStream \cup Lasts : GetArrive(r)
    \/ \E r \in OneStream \cup Lasts : GetInitFailed(r)
    \/ \E s \in OneStream : StreamOpen(s)
    \/ \E s \in OneStream : SinkBreak(s)
    \/ \E r \in Lasts : LastRespond(r)

SpecVisible == InitServing /\ [][NextVisible]_vars

\* The gates of POST / as a function of the request: every request over the
\* bounded field values meets every configuration of the secret, with the
\* store initialised.
GatePost == <<"post", 1>>
GateInit ==
    /\ expectedSecret \in {Absent, "", "abc"}
    /\ secretWarningLogged \in BOOLEAN
    /\ readyPromise = "fulfilled"
    /\ initStep = "done"
    /\ schemaCalls = 1
    /\ bootstrapCalls = 1
    /\ db = <<>>
    /\ sequence = 0
    /\ callHistory = <<>>
    /\ lastCall = NoEvent
    /\ listeners = {}
    /\ heartbeat = [s \in Streams |-> FALSE]
    /\ sink = [s \in Streams |-> <<>>]
    /\ broken = [s \in Streams |-> FALSE]
    /\ closed = [s \in Streams |-> FALSE]
    /\ ticks = [s \in Streams |-> 0]
    /\ pc = [r \in Reqs |-> IF r = GatePost THEN "await_ready" ELSE "idle"]
    /\ resp = [r \in Reqs |-> 0]
    /\ saw = [r \in Reqs |-> "none"]
    /\ ins = [r \in Posts |-> NoInsert]
    /\ prior = [r \in Posts |-> {}]
    /\ lastBody = [r \in Lasts |-> NoEvent]
    /\ pushed = <<>>
    /\ booted = <<>>
    /\ probe \in AllPostRequests
    /\ status = [r \in Posts |-> AbsentStr]
    /\ queryLimit = [r \in Logs |-> 0]
    /\ limitParam = AbsentStr
    /\ fired = [s \in Streams |-> 0]
    /\ regAt = [s \in Streams |-> 0]

GateStep == PostGate(GatePost, probe)

SpecGate == GateInit /\ [][GateStep]_vars

\* =============================================================== properties
\* requests that have called ensurePersistenceReady() and await its promise
Awaiting == {r \in Reqs : pc[r] = "await_ready"}

\* C1 (as stated): once the one-time initialisation has completed, whatever
\* its outcome, the schema-creation statement and the history-bootstrap
\* query have each been executed exactly once.
C1_EachExactlyOnce ==
    Settled => (schemaCalls = 1 /\ bootstrapCalls = 1)

\* C1 (amended): one-time initialisation is single-flight.  However many
\* requests call ensurePersistenceReady, the schema-creation statement is
\* executed exactly once (as soon as one request has called), the bootstrap
\* query at most once: exactly once when schema creation succeeded, not at all
\* when it failed; and every caller observes the outcome of that one execution.
C1_SingleFlight ==
    /\ schemaCalls <= 1
    /\ bootstrapCalls <= 1
    /\ (Awaiting # {} \/ readyPromise # "null") => schemaCalls = 1
    /\ initStep = "schema" => bootstrapCalls = 0
    /\ initStep \in {"bootstrap", "done"} => bootstrapCalls = 1
    /\ readyPromise = "fulfilled" => (schemaCalls = 1 /\ bootstrapCalls = 1)
    /\ \A r \in Reqs :
          /\ saw[r] = "ok" => readyPromise = "fulfilled"
          /\ saw[r] = "failed" => readyPromise = "rejected"
          /\ saw[r] = "failed" => resp[r] = 500

\* C1 witness: a webhook, a stream, a last and a log request all await the
\* same pending initialisation, whose two statements have each been sent once.
C1_Witness ==
    /\ readyPromise = "pending"
    /\ initStep = "bootstrap"
    /\ schemaCalls = 1
    /\ bootstrapCalls = 1
    /\ Awaiting \cap Posts # {}
    /\ Awaiting \cap Streams # {}
    /\ Awaiting \cap Lasts # {}
    /\ Awaiting \cap Logs # {}

\* C2 (as stated): a failed initialisation is remembered for that attempt
\* only; a request that arrives after the failure starts a new attempt, i.e.
\* the schema-creation statement is sent again.
C2_RetryAfterFailure ==
    [][(readyPromise = "rejected" /\ \E r \in Reqs : pc[r] = "idle" /\ pc'[r] = "await_ready")
          => schemaCalls' = schemaCalls + 1]_vars

\* C3: the history holds at most MAX_HISTORY entries; once bootstrapped it
\* is exactly the min(total, MAX_HISTORY) most recent of the bootstrapped and
\* pushed events, newest first, without gap or duplicate, so a push onto a
\* full history evicts exactly its oldest entry.
C3_BoundedNewestFirst ==
    /\ Len(callHistory) <= MAX_HISTORY
    /\ readyPromise # "fulfilled" => callHistory = <<>>
    /\ readyPromise = "fulfilled" =>
          callHistory = Take(Reverse(pushed) \o booted, MAX_HISTORY)
    /\ \A i, j \in 1..Len(callHistory) : i # j => callHistory[i].rid # callHistory[j].rid

\* C3 witness: a push onto a history that bootstrap had filled evicted the
\* oldest entry: the history is full, headed by the pushed event.
C3_Witness ==
    /\ Len(booted) = MAX_HISTORY
    /\ Len(pushed) = 1
    /\ Len(callHistory) = MAX_HISTORY
    /\ callHistory[1] = pushed[1]
    /\ callHistory[MAX_HISTORY] = booted[MAX_HISTORY - 1]

\* the events a stream has been sent, and where
Got(s) == {sink[s][i].ev.rid : i \in {k \in 1..Len(sink[s]) : sink[s][k].type = "call"}}
IndexOf(s, rid) ==
    CHOOSE i \in 1..Len(sink[s]) : sink[s][i].type = "call" /\ sink[s][i].ev.rid = rid
Persisted(e) == \E i \in 1..Len(db) : db[i].id = e.rid
Visible ==
    Range(callHistory) \cup {lastCall} \cup {lastBody[r] : r \in Lasts}
        \cup UNION {{sink[s][i].ev : i \in 1..Len(sink[s])} : s \in Streams}

\* C4: no unpersisted event is ever visible.  Every event in the history, in
\* lastCall, returned by GET /last or written to a subscriber has a row in
\* the store; and the step in which an INSERT fails answers 500 and leaves the
\* history, lastCall and every subscriber's frames unchanged.
C4_NoUnpersistedVisible ==
    /\ [](\A e \in Visible \ {NoEvent} : Persisted(e))
    /\ [][\A r \in Posts :
             (pc[r] = "await_insert" /\ pc'[r] = "done") =>
                 /\ resp'[r] = 500
                 /\ UNCHANGED <<callHistory, lastCall, sink, lastBody, sequence>>]_vars

\* C4 witness: an INSERT has failed (500 after a successful initialisation and
\* gate) while a persisted event is in the history, a subscriber has been sent
\* it and GET /last has returned one.
C4_Witness ==
    /\ \E r \in Posts : resp[r] = 500 /\ saw[r] = "ok"
    /\ callHistory # <<>>
    /\ \E s \in Streams : s \in listeners /\ Got(s) # {}
    /\ \E r \in Lasts : lastBody[r] # NoEvent

\* C5: write failures are contained.  In a broadcast every registered
\* subscriber whose write throws is removed and its timer stopped, every other
\* registered subscriber stays registered and gets the event as its next
\* frame; a heartbeat whose write throws removes that subscriber only.
C5_FailureContained ==
    [][/\ \A r \in Posts :
             (pc[r] = "inserted" /\ pc'[r] = "done") =>
                 \A s \in listeners :
                     IF broken[s]
                     THEN s \notin listeners' /\ ~heartbeat'[s] /\ sink'[s] = sink[s]
                     ELSE /\ s \in listeners'
                          /\ heartbeat'[s] = heartbeat[s]
                          /\ sink'[s] = Append(sink[s], CallFrame(lastCall', FALSE))
       /\ \A s \in Streams :
             ticks'[s] # ticks[s] =>
                 /\ listeners' = IF broken[s] THEN listeners \ {s} ELSE listeners
                 /\ broken[s] => ~heartbeat'[s]
                 /\ \A o \in Streams \ {s} : sink'[o] = sink[o] /\ heartbeat'[o] = heartbeat[o]]_vars

\* C5 witness: one subscriber was removed by a failed broadcast write (it is
\* open, broken, unregistered, and its timer never fired) and lacks the event
\* that another, still registered subscriber got as a broadcast frame.
C5_Witness ==
    \E s1, s2 \in Streams :
        /\ pc[s1] = "streaming" /\ broken[s1] /\ s1 \notin listeners /\ ticks[s1] = 0
        /\ s2 \in listeners
        /\ lastCall.rid \in Got(s2) \ Got(s1)
        /\ sink[s2][IndexOf(s2, lastCall.rid)].snap = FALSE

\* C6: delivery order is consistent.  Two events that two subscribers have
\* both been sent were sent to both in the same order; and if the ingestion
\* of A had completed when the ingestion of B arrived, every subscriber sent
\* both was sent A before B.
C6_ConsistentOrder ==
    /\ \A s1, s2 \in Streams : \A a, b \in Got(s1) \cap Got(s2) :
          (IndexOf(s1, a) < IndexOf(s1, b)) <=> (IndexOf(s2, a) < IndexOf(s2, b))
    /\ \A s \in Streams : \A ra, rb \in Posts :
          (ra \in prior[rb] /\ ins[ra].rid \in Got(s) /\ ins[rb].rid \in Got(s))
              => IndexOf(s, ins[ra].rid) < IndexOf(s, ins[rb].rid)

\* C6 witness: two concurrent ingestions, broadcast in the order opposite to
\* the one in which the store committed them, reached two subscribers as
\* broadcast frames.
C6_Witness ==
    \E ra, rb \in Posts : \E s1, s2 \in Streams :
        /\ s1 # s2
        /\ ra \notin prior[rb] /\ rb \notin prior[ra]
        /\ pc[ra] = "done" /\ pc[rb] = "done"
        /\ 0 < ins[ra].rid /\ ins[ra].rid < ins[rb].rid
        /\ \A s \in {s1, s2} :
              /\ {ins[ra].rid, ins[rb].rid} \subseteq Got(s)
              /\ IndexOf(s, ins[rb].rid) < IndexOf(s, ins[ra].rid)
              /\ ~sink[s][IndexOf(s, ins[rb].rid)].snap

\* C7: a delivery failure never reaches the ingesting caller.  The step that
\* follows a successful INSERT answers 200 and leaves the event at the head of
\* the history, whichever subscribers' writes throw in its broadcast.
C7_DeliveryFailureLocal ==
    [][\A r \in Posts :
          (pc[r] = "inserted" /\ pc'[r] # "inserted") =>
              /\ pc'[r] = "done"
              /\ resp'[r] = 200
              /\ callHistory' # <<>>
              /\ Head(callHistory').rid = ins[r].rid]_vars

\* C7 witness: an ingestion answered 200 although the broadcast writes to
\* every subscriber (all of them registered, none with a timer firing) threw.
C7_Witness ==
    /\ \E r \in Posts : pc[r] = "done" /\ resp[r] = 200 /\ Head(callHistory).rid = ins[r].rid
    /\ \A s \in Streams :
          pc[s] = "streaming" /\ broken[s] /\ s \notin listeners /\ ticks[s] = 0

\* the secret a webhook presents: the header, else the body field, else the
\* query parameter (an empty value counts as not given)
Presented(req) ==
    IF Truthy(req.hdr) THEN req.hdr ELSE IF Truthy(req.body) THEN req.body ELSE req.qry

\* C8: the shared-secret gate.  With a secret configured, a request that has
\* been through the gate was answered 401 exactly when the secret it presents
\* differs from the configured one (and then went no further); with none
\* configured no request is answered 401.
C8_SecretGate ==
    pc[GatePost] # "await_ready" =>
        IF Truthy(expectedSecret)
        THEN /\ resp[GatePost] = 401 <=> Presented(probe) # expectedSecret
             /\ Presented(probe) = expectedSecret => resp[GatePost] \in {0, 400}
             /\ resp[GatePost] = 401 => pc[GatePost] = "done"
        ELSE resp[GatePost] \in {0, 400}

\* C8 witness: a request whose body secret is wrong is answered 401 although
\* its query parameter holds the configured secret (the body takes precedence).
C8_Witness ==
    /\ expectedSecret = "abc"
    /\ probe.hdr = Absent /\ probe.body = "xyz" /\ probe.qry = "abc"
    /\ resp[GatePost] = 401

\* C9: a webhook rejected at a gate (401, 400) has no effect.  The rejecting
\* step leaves the store, the history, lastCall, the id counter, the registry
\* and every subscriber's frames unchanged, and a rejected request is over:
\* it never sends an INSERT.
C9_RejectedNoEffect ==
    [][\A r \in Posts :
          /\ (pc[r] = "await_ready" /\ resp'[r] \in {400, 401}) =>
                 /\ pc'[r] = "done"
                 /\ UNCHANGED <<db, callHistory, lastCall, sequence, sink, listeners,
                                heartbeat, pushed, ins>>
          /\ resp[r] \in {400, 401} =>
                 /\ pc[r] = "done" /\ pc'[r] = "done"
                 /\ ins[r] = NoInsert /\ ins'[r] = NoInsert]_vars

\* C9 witness: one webhook was answered 401 and another 400 while the history
\* holds events and a subscriber has been sent frames.
C9_Witness ==
    /\ \E r \in Posts : resp[r] = 401
    /\ \E r \in Posts : resp[r] = 400
    /\ callHistory # <<>>
    /\ \E s \in Streams : s \in listeners /\ Len(sink[s]) >= 2

\* C10: on stream open the sink gets the retry hint and then, exactly when a
\* last call exists, one frame with that last call, in the step that registers
\* the subscriber; so the retry hint is always first, a snapshot frame is
\* always second, and every broadcast frame comes after them.
C10_OpeningFrames ==
    /\ [](\A s \in Streams :
             /\ s \in listeners => sink[s] # <<>>
             /\ sink[s] # <<>> => sink[s][1] = RetryFrame
             /\ \A i \in 2..Len(sink[s]) :
                   /\ sink[s][i].type # "retry"
                   /\ sink[s][i].snap => i = 2)
    /\ [][\A s \in Streams :
             (pc[s] = "await_ready" /\ pc'[s] = "streaming") =>
                 /\ s \in listeners'
                 /\ lastCall' = lastCall
                 /\ sink'[s] = IF lastCall # NoEvent
                               THEN <<RetryFrame, CallFrame(lastCall, TRUE)>>
                               ELSE <<RetryFrame>>]_vars

\* C10 witness: a sink holds the retry hint, the snapshot of the last call at
\* registration, and then a broadcast frame of a later event.
C10_Witness ==
    \E s \in Streams :
        /\ Len(sink[s]) >= 3
        /\ sink[s][2].type = "call" /\ sink[s][2].snap
        /\ sink[s][3].type = "call" /\ ~sink[s][3].snap
        /\ sink[s][3].ev.rid # sink[s][2].ev.rid

\* ------------------------------------------------ subscriber lifetime
\* Subscriber lifetime: stream requests whose peers may disconnect at any
\* point and whose responses may start to fail.  Every pending callback of the
\* event loop (store answers, resumed handlers, timers) eventually runs; that
\* a peer disconnects or a write starts to throw is up to the environment.
NextLife ==
    \/ InitActs
    \/ \E s \in Streams : GetArrive(s)
    \/ \E s \in Streams : GetInitFailed(s)
    \/ \E s \in Streams : StreamOpen(s)
    \/ \E s \in Streams : Heartbeat(s)
    \/ \E s \in Streams : Disconnect(s)
    \/ \E s \in Streams : CloseHandler(s)
    \/ \E s \in Streams : SinkBreak(s)

LoopRuns ==
    /\ WF_vars(InitActs)
    /\ \A s \in Streams :
          /\ WF_vars(GetInitFailed(s))
          /\ WF_vars(StreamOpen(s))
          /\ WF_vars(Heartbeat(s))
          /\ WF_vars(CloseHandler(s))

SpecLife == InitServing /\ [][NextLife]_vars /\ LoopRuns

\* C11 (as stated): a subscriber is destroyed on disconnect.  Whenever the
\* peer of a stream request has disconnected, at whatever point of the
\* request, the subscriber is not, or is eventually no longer, in the registry
\* and its heartbeat timer is not running.
C11_DisconnectUnregisters ==
    \A s \in Streams : closed[s] ~> (s \notin listeners /\ ~heartbeat[s])

\* the events held in the history or written to a subscriber
Circulated ==
    (Range(callHistory)
        \cup UNION {{sink[s][i].ev : i \in 1..Len(sink[s])} : s \in Streams}) \ {NoEvent}

\* C12 (as stated): event ids are never reused.  No two distinct events (rows
\* of the store) held in the history or delivered to subscribers carry the
\* same id, whether or not the store reports the inserted id of each insert.
C12_IdsNeverReused ==
    \A e1, e2 \in Circulated : e1.rid # e2.rid => e1.id # e2.id

\* the ids of the event frames of a sink, in the order they were written
FrameIds(s) ==
    LET calls == SelectSeq(sink[s], LAMBDA f : f.type = "call")
    IN [i \in 1..Len(calls) |-> calls[i].ev.id]

\* C13 (as stated): frame ids are monotonic.  The ids of the event frames
\* written to one subscriber are non-decreasing in delivery order, and so are
\* the ids along the history from its tail (oldest) to its head (newest),
\* whatever the order in which concurrent inserts complete.
C13_MonotonicIds ==
    /\ \A s \in Streams : \A i, j \in 1..Len(FrameIds(s)) :
          i < j => FrameIds(s)[i] <= FrameIds(s)[j]
    /\ \A i, j \in 1..Len(callHistory) :
          i < j => callHistory[i].id >= callHistory[j].id

\* C14: an unauthenticated GET (stream, last, log) is answered 401 before
\* anything else.  The step that answers 401 ends the request and changes
\* neither the initialisation, the store, the registry, the timers nor any
\* sink; a request answered 401 never awaited the initialisation, is not
\* registered, has no timer and no frame; and while only such requests have
\* arrived the initialisation has not been started.
C14_UnauthenticatedFirst ==
    /\ [](/\ \A r \in Gets :
                resp[r] = 401 =>
                    /\ pc[r] = "done"
                    /\ saw[r] = "none"
                    /\ r \in Streams => (r \notin listeners /\ ~heartbeat[r] /\ sink[r] = <<>>)
          /\ (\A r \in Reqs : pc[r] = "idle" \/ (r \in Gets /\ resp[r] = 401))
                => (readyPromise = "null" /\ schemaCalls = 0 /\ bootstrapCalls = 0))
    /\ [][\A r \in Gets :
             (pc[r] = "idle" /\ resp'[r] = 401) =>
                 /\ pc'[r] = "done"
                 /\ UNCHANGED <<readyPromise, initStep, schemaCalls, bootstrapCalls, db,
                                sequence, callHistory, lastCall, listeners, heartbeat,
                                sink, saw>>]_vars

\* C14 witness: an unauthenticated stream, last and log request have each been
\* answered 401 and the initialisation has still not been started.
C14_Witness ==
    /\ \E r \in Streams : resp[r] = 401
    /\ \E r \in Lasts : resp[r] = 401
    /\ \E r \in Logs : resp[r] = 401
    /\ readyPromise = "null"
    /\ schemaCalls = 0

\* ------------------------------------------------------ store failures
\* Store failures: webhooks and log queries, every statement of which (schema,
\* bootstrap, INSERT, SELECT) the store may reject.
NextStore ==
    \/ InitActs
    \/ PostActs
    \/ \E r \in Logs : GetArrive(r)
    \/ \E r \in Logs : GetInitFailed(r)
    \/ \E r \in Logs : LogQuery(r)
    \/ \E r \in Logs : LogQueryOk(r)
    \/ \E r \in Logs : LogQueryFail(r)

SpecStore == InitServing /\ [][NextStore]_vars

\* C15 (as stated): every store failure is reported as a 500.  A request that
\* saw the initialisation fail, a webhook whose INSERT failed and a log request
\* whose SELECT failed are all answered 500 in the step that handles the
\* failure; none is left without a response.
C15_StoreErrorIs500 ==
    [][\A r \in Reqs :
          /\ (saw[r] = "none" /\ saw'[r] = "failed") => resp'[r] = 500
          /\ (pc[r] = "await_insert" /\ pc'[r] = "done") => resp'[r] = 500
          /\ (pc[r] = "await_query" /\ pc'[r] = "threw") => resp'[r] = 500]_vars

\* ------------------------------------------------- request parameters
\* The process after a successful initialisation over an empty table, with
\* request r resumed from its `await ensurePersistenceReady()` next.
Resuming(r) ==
    /\ readyPromise = "fulfilled"
    /\ initStep = "done"
    /\ schemaCalls = 1
    /\ bootstrapCalls = 1
    /\ db = <<>>
    /\ sequence = 0
    /\ callHistory = <<>>
    /\ lastCall = NoEvent
    /\ listeners = {}
    /\ heartbeat = [s \in Streams |-> FALSE]
    /\ sink = [s \in Streams |-> <<>>]
    /\ broken = [s \in Streams |-> FALSE]
    /\ closed = [s \in Streams |-> FALSE]
    /\ ticks = [s \in Streams |-> 0]
    /\ pc = [q \in Reqs |-> IF q = r THEN "await_ready" ELSE "idle"]
    /\ resp = [q \in Reqs |-> 0]
    /\ saw = [q \in Reqs |-> "none"]
    /\ ins = [q \in Posts |-> NoInsert]
    /\ prior = [q \in Posts |-> {}]
    /\ lastBody = [q \in Lasts |-> NoEvent]
    /\ pushed = <<>>
    /\ booted = <<>>
    /\ status = [q \in Posts |-> AbsentStr]
    /\ queryLimit = [q \in Logs |-> 0]

\* the values of req.body.status: the labels, the synonyms and an unknown
\* word, in lower case, upper case and capitalised, with and without blanks
\* around; the empty string, a blank, and no status at all
toUpperCase(s) ==
    [i \in 1..Len(s) |->
        IF \E k \in 1..Len(Lowers) : Lowers[k] = s[i]
        THEN Uppers[CHOOSE k \in 1..Len(Lowers) : Lowers[k] = s[i]]
        ELSE s[i]]
StatusWords ==
    STATUS_LABELS \cup {No_Answer, NoAnswer, <<"n", "o", " ", "a", "n", "s", "w", "e", "r">>,
                        <<"b", "u", "s", "y">>}
Cased(w) == {w, toUpperCase(w), toUpperCase(SubSeq(w, 1, 1)) \o Tail(w)}
Padded(w) == {w, <<" ">> \o w, w \o <<" ">>, <<" ">> \o w \o <<" ">>}
StatusValues ==
    {AbsentStr, <<>>, <<" ">>}
        \cup UNION {Padded(c) : c \in UNION {Cased(w) : w \in StatusWords}}

\* Webhooks that pass both gates, over every status value.
StatusInit ==
    /\ Resuming(GatePost)
    /\ expectedSecret = "abc"
    /\ secretWarningLogged = FALSE
    /\ probe \in {[WebReq("abc", Absent, Absent, <<"+", "4", "0">>) EXCEPT !.status = v] :
                     v \in StatusValues}
    /\ limitParam = AbsentStr
    /\ fired = [s \in Streams |-> 0]
    /\ regAt = [s \in Streams |-> 0]

SpecStatus == StatusInit /\ [][GateStep]_vars

\* normalizeStatus as specified: trim and lower-case; a label maps to itself,
\* "no answer" and "noanswer" to "missed", anything else (or nothing) to
\* "ringing"
StatusReference(raw) ==
    IF raw = AbsentStr THEN Ringing
    ELSE LET word == toLowerCase(Trim(raw))
         IN IF word \in STATUS_LABELS THEN word
            ELSE IF word \in {<<"n", "o", " ", "a", "n", "s", "w", "e", "r">>, NoAnswer}
                 THEN Missed
            ELSE Ringing

\* C16 (as stated): normalizeStatus agrees with the specified function on
\* every input, and its result is always one of the four labels.
C16_StatusAsSpecified ==
    pc[GatePost] = "await_insert" =>
        /\ status[GatePost] \in STATUS_LABELS
        /\ status[GatePost] = StatusReference(probe.status)

\* the values of req.query.limit: none, and every string of up to three
\* characters over a sign, four digits and a letter
LimitChars == {"-", "0", "1", "5", "9", "a"}
LimitValues ==
    {AbsentStr, <<>>} \cup UNION {[1..n -> LimitChars] : n \in 1..3}

\* Log queries over every limit parameter.
LimitLog == <<"log", 1>>
LimitInit ==
    /\ Resuming(LimitLog)
    /\ expectedSecret = "abc"
    /\ secretWarningLogged = FALSE
    /\ probe = WebReq(Absent, Absent, Absent, AbsentStr)
    /\ limitParam \in LimitValues
    /\ fired = [s \in Streams |-> 0]
    /\ regAt = [s \in Streams |-> 0]

LimitStep == LogQuery(LimitLog)

SpecLimit == LimitInit /\ [][LimitStep]_vars

\* the limit as specified: the caller's integer clamped to [1, 500], and 100
\* when the parameter is absent or is not an integer
IsInteger(raw) ==
    /\ raw # AbsentStr
    /\ LET digits == IF raw # <<>> /\ Head(raw) = "-" THEN Tail(raw) ELSE raw
       IN digits # <<>> /\ \A i \in 1..Len(digits) : digits[i] \in Digits
LimitReference(raw) ==
    IF IsInteger(raw)
    THEN LET n == parseInt(raw).val
         IN IF n < 1 THEN 1 ELSE IF n > 500 THEN 500 ELSE n
    ELSE 100

\* C17 (as stated): the effective row limit is the caller's integer clamped
\* to [1, 500] (below 1 becomes 1, above 500 becomes 500), and 100 when the
\* parameter is absent or not an integer; it is always within [1, 500].
C17_LimitClamped ==
    pc[LimitLog] = "await_query" =>
        /\ queryLimit[LimitLog] \in 1..500
        /\ queryLimit[LimitLog] = LimitReference(limitParam)

\* ------------------------------------------------------ one subscriber
\* One subscriber through its whole life (open, heartbeats, failing writes,
\* disconnect and the handlers that follow) while webhooks are ingested.
NextSubscriber ==
    \/ InitActs
    \/ PostActs
    \/ \E s \in OneStream : GetArrive(s)
    \/ \E s \in OneStream : GetInitFailed(s)
    \/ \E s \in OneStream : StreamOpen(s)
    \/ \E s \in OneStream : Heartbeat(s)
    \/ \E s \in OneStream : Disconnect(s)
    \/ \E s \in OneStream : CloseHandler(s)
    \/ \E s \in OneStream : SinkBreak(s)

\* the secret is configured; the table is empty or full
InitSubscriber == Init /\ expectedSecret = "abc" /\ Len(db) \in {0, MaxInitRows}

SpecSubscriber == InitSubscriber /\ [][NextSubscriber]_vars

\* cleanupListener has run for the subscriber of stream s
Unregistered(s) == pc[s] = "streaming" /\ s \notin listeners

\* C18: cleanupListener is idempotent and final.  Once it has run for a
\* subscriber, the subscriber is out of the registry with its timer cancelled,
\* and from then on it stays out, its timer stays cancelled and no frame is
\* written to its sink; a further run of it (another close/end/finish handler)
\* changes neither the registry, the timers nor any sink, and ends no request.
C18_CleanupIdempotentFinal ==
    /\ [](\A s \in Streams :
             /\ Unregistered(s) => ~heartbeat[s]
             /\ s \in listeners => (heartbeat[s] /\ pc[s] = "streaming"))
    /\ [][\A s \in Streams :
             /\ Unregistered(s) =>
                   /\ Unregistered(s)'
                   /\ ~heartbeat'[s]
                   /\ sink'[s] = sink[s]
                   /\ ticks'[s] = ticks[s]
             /\ (Unregistered(s) /\ fired'[s] # fired[s]) =>
                   UNCHANGED <<listeners, heartbeat, sink, pc, resp>>]_vars

\* C18 witness: cleanupListener has run at least twice for a subscriber that
\* had been sent a broadcast frame (its peer disconnected, two handlers ran),
\* and an event ingested afterwards was not written to its sink.
C18_Witness ==
    \E s \in Streams :
        /\ Unregistered(s)
        /\ fired[s] >= 2
        /\ \E i \in 1..Len(sink[s]) : sink[s][i].type = "call" /\ ~sink[s][i].snap
        /\ lastCall # NoEvent
        /\ lastCall.rid \notin Got(s)

\* the head of the history, or no event when it is empty
MostRecent == IF callHistory = <<>> THEN NoEvent ELSE Head(callHistory)

\* C19: once the initialisation has completed, lastCall is exactly the head of
\* the history, and is null exactly when the history is empty; so GET /last
\* returns, and a stream's opening snapshot carries, the head of the history.
C19_LastCallIsHead ==
    /\ [](readyPromise = "fulfilled" =>
             /\ lastCall = MostRecent
             /\ (lastCall = NoEvent <=> callHistory = <<>>))
    /\ [][/\ \A r \in Lasts : lastBody'[r] # lastBody[r] => lastBody'[r] = MostRecent
          /\ \A s \in Streams :
                (pc[s] = "await_ready" /\ pc'[s] = "streaming") =>
                    sink'[s] = OpeningFrames(MostRecent)]_vars

\* C19 witness: after a bootstrap that loaded rows and a later ingestion,
\* lastCall is the ingested event at the head of the history, GET /last has
\* returned it and a stream was opened with it as its snapshot.
C19_Witness ==
    /\ readyPromise = "fulfilled"
    /\ booted # <<>>
    /\ pushed # <<>>
    /\ lastCall = pushed[Len(pushed)]
    /\ lastCall = Head(callHistory)
    /\ \E r \in Lasts : lastBody[r] = lastCall
    /\ \E s \in Streams : Len(sink[s]) = 2 /\ sink[s][2] = CallFrame(lastCall, TRUE)

\* the events of the broadcast frames of a sink, in the order written
Broadcasts(s) ==
    LET frames == SelectSeq(sink[s], LAMBDA f : f.type = "call" /\ ~f.snap)
    IN [i \in 1..Len(frames) |-> frames[i].ev]
\* the events of all event frames of a sink (snapshot included), in order
Delivered(s) ==
    LET frames == SelectSeq(sink[s], LAMBDA f : f.type = "call")
    IN [i \in 1..Len(frames) |-> frames[i].ev]

\* C20: no loss and no duplicate.  A subscriber that is still registered (no
\* write to it has failed) has been sent, as broadcast frames, exactly the
\* events broadcast since its registration, each once and in broadcast order;
\* and no event occurs twice among the event frames of a sink, so the event
\* of the opening snapshot is never sent again as a broadcast frame.
C20_NoLossNoDuplicate ==
    /\ \A i, j \in 1..Len(pushed) : i # j => pushed[i].rid # pushed[j].rid
    /\ \A s \in listeners :
          Broadcasts(s) = SubSeq(pushed, regAt[s] + 1, Len(pushed))
    /\ \A s \in Streams : \A i, j \in 1..Len(Delivered(s)) :
          i # j => Delivered(s)[i].rid # Delivered(s)[j].rid

\* C20 witness: a subscriber registered between two ingestions: its snapshot
\* is the first event, and it is still registered and has been sent the
\* second event, once, as a broadcast frame.
C20_Witness ==
    \E s \in listeners :
        /\ Len(pushed) = 2
        /\ regAt[s] = 1
        /\ sink[s][2] = CallFrame(pushed[1], TRUE)
        /\ Broadcasts(s) = <<pushed[2]>>

====
